---- MODULE Spec2Model ----
(***************************************************************************)
(* A model of notebook/business_metrics.py: the metric functions over the  *)
(* five record tables and generate_business_summary, which calls them in   *)
(* sequence.                                                               *)
(*                                                                         *)
(* Tables are sequences of records (a DataFrame's rows in row order).      *)
(* Floating-point values are modelled as extended rationals [n, d]:        *)
(* d > 0 is the reduced fraction n/d, 1/0 and -1/0 are +inf and -inf, and  *)
(* 0/0 is NaN.  Rounding of float64 is not modelled.                       *)
(* Timestamps are modelled by their year, their month and a position on a  *)
(* half-day axis, so that the whole-day floor of a difference is real, and *)
(* by whether the value is still a string or already a parsed timestamp.   *)
(***************************************************************************)
EXTENDS Integers, Sequences, FiniteSets, TLC

\* ------------------------------------------------------------------ bounds

MaxSales == 2
MaxReviews == 2

\* The most rows an order table holds when it is drawn freely.
MaxOrders == 3

\* The most rows a sales table holds in calls made one after another.
MaxCallRows == 3

\* ------------------------------------------------------- extended rationals

Abs(x) == IF x < 0 THEN -x ELSE x

Sign(x) == IF x < 0 THEN -1 ELSE IF x > 0 THEN 1 ELSE 0

RECURSIVE Gcd(_, _)
Gcd(a, b) == IF b = 0 THEN a ELSE Gcd(b, a % b)

\* The reduced value of n/d, with the sign carried by n.
Norm(n, d) ==
    IF d = 0 THEN [n |-> Sign(n), d |-> 0]
    ELSE LET g == Gcd(Abs(n), Abs(d))
         IN  [n |-> (Sign(d) * n) \div g, d |-> Abs(d) \div g]

FromInt(i) == [n |-> i, d |-> 1]

NaN == [n |-> 0, d |-> 0]

IsNaN(a) == a.n = 0 /\ a.d = 0

IsFinite(a) == a.d # 0

\* a + b, IEEE: NaN absorbs, inf + -inf is NaN.
RAdd(a, b) ==
    IF a.d = 0 /\ b.d = 0
    THEN (IF a.n = b.n THEN a ELSE NaN)
    ELSE Norm(a.n * b.d + b.n * a.d, a.d * b.d)

RNeg(a) == [n |-> -a.n, d |-> a.d]

RSub(a, b) == RAdd(a, RNeg(b))

RMul(a, b) == Norm(a.n * b.n, a.d * b.d)

\* a / b, IEEE: x/0 is +-inf for x # 0, 0/0 is NaN (zero taken as +0).
RDiv(a, b) ==
    LET s == IF b.n < 0 THEN -1 ELSE 1
    IN  Norm(a.n * b.d * s, a.d * Abs(b.n))

\* a == 0 as Python/numpy evaluate it: False for NaN and the infinities.
IsZero(a) == a.n = 0 /\ a.d # 0

\* a <= b as Python evaluates it: False when either side is NaN.
RLe(a, b) ==
    IF IsNaN(a) \/ IsNaN(b) THEN FALSE
    ELSE IF a.d = 0 /\ b.d = 0 THEN a.n <= b.n
    ELSE IF a.d = 0 THEN a.n < 0
    ELSE IF b.d = 0 THEN b.n > 0
    ELSE a.n * b.d <= b.n * a.d

\* ------------------------------------------------------------ table helpers

\* df[cols]: the rows restricted to the named columns.
Project(t, cols) == [i \in DOMAIN t |-> [c \in cols |-> t[i][c]]]

\* The distinct values of one column.
Keys(t, col) == {t[i][col] : i \in DOMAIN t}

\* Series.sum() of an integer column: 0 for an empty table.
RECURSIVE SumCol(_, _)
SumCol(t, col) ==
    IF t = <<>> THEN 0 ELSE Head(t)[col] + SumCol(Tail(t), col)

\* Series.sum() of an extended-rational column, NaN entries skipped.
RECURSIVE RSumSkipNaN(_, _)
RSumSkipNaN(t, col) ==
    IF t = <<>> THEN FromInt(0)
    ELSE IF IsNaN(Head(t)[col]) THEN RSumSkipNaN(Tail(t), col)
    ELSE RAdd(Head(t)[col], RSumSkipNaN(Tail(t), col))

\* Series.mean() of an integer column: NaN for an empty table.
MeanCol(t, col) == RDiv(FromInt(SumCol(t, col)), FromInt(Len(t)))

\* Series.mean() of an extended-rational column: NaN entries are skipped,
\* NaN when nothing is left.
RMeanSkipNaN(t, col) ==
    LET kept == SelectSeq(t, LAMBDA r : ~IsNaN(r[col]))
    IN  RDiv(RSumSkipNaN(kept, col), FromInt(Len(kept)))

\* The rows of t whose column col equals v (boolean-mask selection).
RowsWhere(t, col, v) == SelectSeq(t, LAMBDA r : r[col] = v)

\* A finite set of integers in ascending order (groupby sorts its keys).
RECURSIVE SortAsc(_)
SortAsc(S) ==
    IF S = {} THEN <<>>
    ELSE LET m == CHOOSE x \in S : \A y \in S : x <= y
         IN  <<m>> \o SortAsc(S \ {m})

\* pd.merge with how='cross': every left row pairs with every right row.
RECURSIVE Merge_cross(_, _, _)
Merge_cross(left, right, key) ==
    IF left = <<>> THEN <<>>
    ELSE [i \in DOMAIN right |-> Head(left) @@ right[i]]
         \o Merge_cross(Tail(left), right, key)

\* pd.merge(left, right) on the single common column key, how='inner':
\* for each left row in order, one output row per matching right row.
RECURSIVE Merge(_, _, _)
Merge(left, right, key) ==
    IF left = <<>> THEN <<>>
    ELSE LET l == Head(left)
             m == SelectSeq(right, LAMBDA r : r[key] = l[key])
         IN  [i \in DOMAIN m |-> l @@ m[i]] \o Merge(Tail(left), right, key)

\* DataFrame.drop_duplicates(): whole-row duplicates removed, first kept.
RECURSIVE DropDuplicates(_)
DropDuplicates(t) ==
    IF t = <<>> THEN <<>>
    ELSE LET rest == DropDuplicates(SelectSeq(Tail(t), LAMBDA r : r # Head(t)))
         IN  <<Head(t)>> \o rest

\* The first row of each order, in row order.
RECURSIVE FirstByOrder(_)
FirstByOrder(t) ==
    IF t = <<>> THEN <<>>
    ELSE <<Head(t)>> \o
         FirstByOrder(SelectSeq(Tail(t), LAMBDA r : r.order_id # Head(t).order_id))

\* sort_values() with ascending left at its default of True.
DescendingOrders_ascending(f) ==
    LET n == Cardinality(DOMAIN f)
    IN  {p \in [1..n -> DOMAIN f] :
            /\ \A i, j \in 1..n : i # j => p[i] # p[j]
            /\ \A i \in 1..n : i < n => RLe(f[p[i]], f[p[i + 1]])}

\* A Series (a function index -> extended rational) laid out in some order
\* that is descending by value: sort_values(ascending=False) with the
\* default kind='quicksort', which does not fix the order of equal values.
DescendingOrders(f) ==
    LET n == Cardinality(DOMAIN f)
    IN  {p \in [1..n -> DOMAIN f] :
            /\ \A i, j \in 1..n : i # j => p[i] # p[j]
            /\ \A i \in 1..n : i < n => RLe(f[p[i + 1]], f[p[i]])}

\* groupby(col)['price'].sum(): one entry per distinct key.
GroupSum(t, col) ==
    [k \in Keys(t, col) |-> SumCol(RowsWhere(t, col, k), "price")]

\* The sum of the values of an integer Series.
RECURSIVE SumOver(_, _)
SumOver(f, S) ==
    IF S = {} THEN 0
    ELSE LET k == CHOOSE x \in S : TRUE
         IN  f[k] + SumOver(f, S \ {k})

\* Series.mean() of an integer Series: NaN when it is empty.
SeriesMean(f) ==
    RDiv(FromInt(SumOver(f, DOMAIN f)), FromInt(Cardinality(DOMAIN f)))

\* pct_change with the first position filled with 0.
PctChange_zero_first(s) ==
    [i \in DOMAIN s |->
        IF i = 1 THEN FromInt(0) ELSE RSub(RDiv(s[i], s[i - 1]), FromInt(1))]

\* Series.pct_change(): NaN at the first position, s[i] / s[i-1] - 1 after.
PctChange(s) ==
    [i \in DOMAIN s |->
        IF i = 1 THEN NaN ELSE RSub(RDiv(s[i], s[i - 1]), FromInt(1))]

\* An optional argument: <<>> is None, <<v>> is the value v.
None == <<>>

Some(v) == <<v>>

IsNone(o) == o = <<>>

\* ------------------------------------------------------- DataFrame objects
\* A function works on DataFrame objects: heap maps each reference it holds
\* to the table that object contains.  "arg" is the caller's object.

\* DataFrame.copy() with the reference taken instead of a copy made.
Copy_alias(heap, ref) == [heap |-> heap, ref |-> ref]

\* DataFrame.copy(): a new object with the same rows.
Copy(heap, ref) == [heap |-> ("copy" :> heap[ref]) @@ heap, ref |-> "copy"]

\* df[col] = values: the object behind ref gets the column, in place.
AssignColumn(heap, ref, col, values) ==
    [heap EXCEPT ![ref] = [i \in DOMAIN @ |-> (col :> values[i]) @@ @[i]]]

\* df.drop(cols, axis=1): a new table without the columns.
DropColumns(t, cols) ==
    [i \in DOMAIN t |-> [c \in (DOMAIN t[i]) \ cols |-> t[i][c]]]

\* pd.to_datetime of one value: a string becomes a timestamp, a timestamp
\* stays one.
ToDatetime(ts) == [ts EXCEPT !.parsed = TRUE]

\* ------------------------------------------------------ the metric functions

DefaultCurrentYear == 2023

DefaultComparisonYear == 2022

\* calculate_revenue_metrics without the guard on a zero previous revenue.
calculate_revenue_metrics_unguarded(sales_data, current_year, comparison_year) ==
    LET current_data == RowsWhere(sales_data, "year", current_year)
        previous_data == RowsWhere(sales_data, "year", comparison_year)
        current_revenue == FromInt(SumCol(current_data, "price"))
        previous_revenue == FromInt(SumCol(previous_data, "price"))
    IN  [current_revenue |-> current_revenue,
         previous_revenue |-> previous_revenue,
         revenue_growth |->
             RMul(RDiv(RSub(current_revenue, previous_revenue),
                       previous_revenue), FromInt(100))]

\* calculate_revenue_metrics summing one price per order instead of every
\* line item.
calculate_revenue_metrics_per_order(sales_data, current_year, comparison_year) ==
    LET current_data == FirstByOrder(RowsWhere(sales_data, "year", current_year))
        previous_data == FirstByOrder(RowsWhere(sales_data, "year", comparison_year))
        current_revenue == FromInt(SumCol(current_data, "price"))
        previous_revenue == FromInt(SumCol(previous_data, "price"))
    IN  [current_revenue |-> current_revenue,
         previous_revenue |-> previous_revenue,
         revenue_growth |->
             IF IsZero(previous_revenue) THEN FromInt(0)
             ELSE RMul(RDiv(RSub(current_revenue, previous_revenue),
                            previous_revenue), FromInt(100))]

calculate_revenue_metrics(sales_data, current_year, comparison_year) ==
    LET current_data == RowsWhere(sales_data, "year", current_year)
        previous_data == RowsWhere(sales_data, "year", comparison_year)
        current_revenue == FromInt(SumCol(current_data, "price"))
        previous_revenue == FromInt(SumCol(previous_data, "price"))
        revenue_growth ==
            IF IsZero(previous_revenue) THEN FromInt(0)
            ELSE RMul(RDiv(RSub(current_revenue, previous_revenue),
                           previous_revenue), FromInt(100))
    IN  [current_revenue |-> current_revenue,
         previous_revenue |-> previous_revenue,
         revenue_growth |-> revenue_growth]

\* calculate_monthly_growth_trend over every calendar month up to the last
\* one with rows, a month without rows counting as revenue 0.
calculate_monthly_growth_trend_calendar(sales_data, year) ==
    LET year_data == RowsWhere(sales_data, "year", year)
        monthly_revenue == GroupSum(year_data, "month")
        last == IF DOMAIN monthly_revenue = {} THEN 0
                ELSE CHOOSE m \in DOMAIN monthly_revenue :
                         \A k \in DOMAIN monthly_revenue : k <= m
        months == [i \in 1..last |-> i]
        revenue == [i \in DOMAIN months |->
                       IF i \in DOMAIN monthly_revenue
                       THEN FromInt(monthly_revenue[i]) ELSE FromInt(0)]
        change == PctChange(revenue)
    IN  [i \in DOMAIN months |->
            [month |-> months[i], growth |-> RMul(change[i], FromInt(100))]]

\* groupby('month')['price'].sum().pct_change() * 100 over the rows of the
\* year: one entry per month that has rows, in ascending month order.
calculate_monthly_growth_trend(sales_data, year) ==
    LET year_data == RowsWhere(sales_data, "year", year)
        monthly_revenue == GroupSum(year_data, "month")
        months == SortAsc(DOMAIN monthly_revenue)
        revenue == [i \in DOMAIN months |-> FromInt(monthly_revenue[months[i]])]
        change == PctChange(revenue)
    IN  [i \in DOMAIN months |->
            [month |-> months[i], growth |-> RMul(change[i], FromInt(100))]]

calculate_average_order_value(sales_data, current_year, comparison_year) ==
    LET current_data == RowsWhere(sales_data, "year", current_year)
        previous_data == RowsWhere(sales_data, "year", comparison_year)
        current_aov == SeriesMean(GroupSum(current_data, "order_id"))
        previous_aov == SeriesMean(GroupSum(previous_data, "order_id"))
        aov_growth ==
            IF IsZero(previous_aov) THEN FromInt(0)
            ELSE RMul(RDiv(RSub(current_aov, previous_aov), previous_aov),
                      FromInt(100))
    IN  [current_aov |-> current_aov,
         previous_aov |-> previous_aov,
         aov_growth |-> aov_growth]

calculate_order_count_metrics(sales_data, current_year, comparison_year) ==
    LET current_data == RowsWhere(sales_data, "year", current_year)
        previous_data == RowsWhere(sales_data, "year", comparison_year)
        current_orders == FromInt(Cardinality(Keys(current_data, "order_id")))
        previous_orders == FromInt(Cardinality(Keys(previous_data, "order_id")))
        order_growth ==
            IF IsZero(previous_orders) THEN FromInt(0)
            ELSE RMul(RDiv(RSub(current_orders, previous_orders),
                           previous_orders), FromInt(100))
    IN  [current_orders |-> current_orders,
         previous_orders |-> previous_orders,
         order_growth |-> order_growth]

\* The join and the grouped sums of calculate_product_category_performance,
\* before the ranking.
CategoryRevenue(sales_data, products_data, year) ==
    LET year_data == RowsWhere(sales_data, "year", year)
        sales_categories ==
            Merge(Project(products_data, {"product_id", "product_category_name"}),
                  Project(year_data, {"product_id", "price"}), "product_id")
    IN  GroupSum(sales_categories, "product_category_name")

\* The possible results of calculate_product_category_performance: the
\* groups ranked descending by revenue, as rows after reset_index().
calculate_product_category_performance(sales_data, products_data, year) ==
    LET grouped == CategoryRevenue(sales_data, products_data, year)
        asNum == [k \in DOMAIN grouped |-> FromInt(grouped[k])]
    IN  {[i \in DOMAIN p |->
            [product_category_name |-> p[i], price |-> grouped[p[i]]]] :
         p \in DescendingOrders(asNum)}

\* The two joins and the grouped sums of calculate_geographic_performance.
GeographicRevenue(sales_data, orders_data, customers_data, year) ==
    LET year_data == RowsWhere(sales_data, "year", year)
        sales_customers ==
            Merge(Project(year_data, {"order_id", "price"}),
                  Project(orders_data, {"order_id", "customer_id"}), "order_id")
        sales_states ==
            Merge(sales_customers,
                  Project(customers_data, {"customer_id", "customer_state"}),
                  "customer_id")
    IN  GroupSum(sales_states, "customer_state")

calculate_geographic_performance(sales_data, orders_data, customers_data, year) ==
    LET grouped == GeographicRevenue(sales_data, orders_data, customers_data, year)
        asNum == [k \in DOMAIN grouped |-> FromInt(grouped[k])]
    IN  {[i \in DOMAIN p |->
            [customer_state |-> p[i], price |-> grouped[p[i]]]] :
         p \in DescendingOrders(asNum)}

\* (delivered - purchased).dt.days: the difference floored to whole days,
\* NaN when the delivered date is absent (NaT).
DeliverySpeed(row) ==
    IF IsNone(row.order_delivered_customer_date) THEN NaN
    ELSE FromInt((row.order_delivered_customer_date[1]
                  - row.order_purchase_timestamp.halfday) \div 2)

\* categorize_delivery_speed with < in place of <= at the fast limit.
categorize_delivery_speed_strict(days) ==
    IF ~IsNaN(days) /\ ~RLe(FromInt(3), days) THEN "fast"
    ELSE IF RLe(days, FromInt(7)) THEN "standard"
    ELSE "slow"

categorize_delivery_speed(days) ==
    IF RLe(days, FromInt(3)) THEN "fast"
    ELSE IF RLe(days, FromInt(7)) THEN "standard"
    ELSE "slow"

\* The local table delivery_reviews of calculate_delivery_performance_metrics,
\* with its delivery_category column.
DeliveryReviews(sales_data, reviews_data, year) ==
    LET selected == RowsWhere(sales_data, "year", year)
        year_data == [i \in DOMAIN selected |->
                        selected[i] @@ [delivery_speed |-> DeliverySpeed(selected[i])]]
        delivery_reviews ==
            DropDuplicates(
                Merge(Project(year_data, {"order_id", "delivery_speed"}),
                      Project(reviews_data, {"order_id", "review_score"}),
                      "order_id"))
    IN  [i \in DOMAIN delivery_reviews |->
            delivery_reviews[i] @@
            [delivery_category |->
                categorize_delivery_speed(delivery_reviews[i].delivery_speed)]]

\* groupby('delivery_category')['review_score'].mean()
DeliveryCategoryScores(delivery_reviews) ==
    [c \in Keys(delivery_reviews, "delivery_category") |->
        MeanCol(RowsWhere(delivery_reviews, "delivery_category", c), "review_score")]

\* Series.get without its default: a missing key reads as NaN.
Get_no_default(series, key, default) ==
    IF key \in DOMAIN series THEN series[key] ELSE NaN

\* Series.get(key, default)
Get(series, key, default) ==
    IF key \in DOMAIN series THEN series[key] ELSE default

calculate_delivery_performance_metrics(sales_data, reviews_data, year) ==
    LET delivery_reviews == DeliveryReviews(sales_data, reviews_data, year)
        delivery_category_scores == DeliveryCategoryScores(delivery_reviews)
    IN  [avg_delivery_days |-> RMeanSkipNaN(delivery_reviews, "delivery_speed"),
         avg_review_score |-> MeanCol(delivery_reviews, "review_score"),
         fast_delivery_score |-> Get(delivery_category_scores, "fast", FromInt(0)),
         standard_delivery_score |->
             Get(delivery_category_scores, "standard", FromInt(0)),
         slow_delivery_score |-> Get(delivery_category_scores, "slow", FromInt(0))]

\* StatusYearData without the selection of the year's rows.
StatusYearData_all_years(orders_data, year) ==
    LET c == Copy([arg |-> orders_data], "arg")
        years == [i \in DOMAIN orders_data |->
                    ToDatetime(c.heap[c.ref][i].order_purchase_timestamp).year]
        heap == AssignColumn(c.heap, c.ref, "year", years)
    IN  [year_data |-> heap[c.ref],
         orders_data |-> heap["arg"]]

\* Lines 292-295 of calculate_order_status_distribution: the copy with its
\* year column, the rows of the year, and the caller's object afterwards.
StatusYearData(orders_data, year) ==
    LET c == Copy([arg |-> orders_data], "arg")
        years == [i \in DOMAIN orders_data |->
                    ToDatetime(c.heap[c.ref][i].order_purchase_timestamp).year]
        heap == AssignColumn(c.heap, c.ref, "year", years)
    IN  [year_data |-> RowsWhere(heap[c.ref], "year", year),
         orders_data |-> heap["arg"]]

\* value_counts(normalize=True) * 100 of the year's order_status column.
StatusShares(orders_data, year) ==
    LET year_data == StatusYearData(orders_data, year).year_data
    IN  [s \in Keys(year_data, "order_status") |->
            RMul(RDiv(FromInt(Len(RowsWhere(year_data, "order_status", s))),
                      FromInt(Len(year_data))), FromInt(100))]

\* The possible results of calculate_order_status_distribution: value_counts
\* lists the statuses descending by share.
calculate_order_status_distribution(orders_data, year) ==
    LET shares == StatusShares(orders_data, year)
    IN  {[i \in DOMAIN p |-> [order_status |-> p[i], share |-> shares[p[i]]]] :
         p \in DescendingOrders(shares)}

\* FilterDataByPeriod with the month tested only when no year is given
\* (elif month is not None).
FilterDataByPeriod_elif(data, year, month, date_column) ==
    LET c == Copy([arg |-> data], "arg")
        dates == [i \in DOMAIN data |-> ToDatetime(c.heap[c.ref][i][date_column])]
        h1 == AssignColumn(c.heap, c.ref, date_column, dates)
        h2 == AssignColumn(h1, c.ref, "filter_year",
                           [i \in DOMAIN data |-> dates[i].year])
        h3 == AssignColumn(h2, c.ref, "filter_month",
                           [i \in DOMAIN data |-> dates[i].month])
        filtered ==
            IF ~IsNone(year)
            THEN SelectSeq(h3[c.ref], LAMBDA r : r.filter_year = year[1])
            ELSE IF ~IsNone(month)
            THEN SelectSeq(h3[c.ref], LAMBDA r : r.filter_month = month[1])
            ELSE h3[c.ref]
    IN  [result |-> DropColumns(filtered, {"filter_year", "filter_month"}),
         data |-> h3["arg"]]

\* filter_data_by_period with its result and the caller's object afterwards.
FilterDataByPeriod(data, year, month, date_column) ==
    LET c == Copy([arg |-> data], "arg")
        dates == [i \in DOMAIN data |-> ToDatetime(c.heap[c.ref][i][date_column])]
        h1 == AssignColumn(c.heap, c.ref, date_column, dates)
        h2 == AssignColumn(h1, c.ref, "filter_year",
                           [i \in DOMAIN data |-> dates[i].year])
        h3 == AssignColumn(h2, c.ref, "filter_month",
                           [i \in DOMAIN data |-> dates[i].month])
        by_year ==
            IF ~IsNone(year)
            THEN SelectSeq(h3[c.ref], LAMBDA r : r.filter_year = year[1])
            ELSE h3[c.ref]
        by_month ==
            IF ~IsNone(month)
            THEN SelectSeq(by_year, LAMBDA r : r.filter_month = month[1])
            ELSE by_year
    IN  [result |-> DropColumns(by_month, {"filter_year", "filter_month"}),
         data |-> h3["arg"]]

filter_data_by_period(data, year, month, date_column) ==
    FilterDataByPeriod(data, year, month, date_column).result

\* ------------------------------------------------------------ the input data

Sale(o, p, y, m, price, delivered) ==
    [order_id |-> o, product_id |-> p, year |-> y, month |-> m, price |-> price,
     order_purchase_timestamp |->
         [year |-> y, month |-> m, halfday |-> 1, parsed |-> FALSE],
     order_delivered_customer_date |-> delivered]

Order(o, c, status, y, m) ==
    [order_id |-> o, customer_id |-> c, order_status |-> status,
     order_purchase_timestamp |->
         [year |-> y, month |-> m, halfday |-> 1, parsed |-> FALSE]]

Product(p, category) == [product_id |-> p, product_category_name |-> category]

Customer(c, state) == [customer_id |-> c, customer_state |-> state]

Review(o, score) == [order_id |-> o, review_score |-> score]

\* All tables of at most n rows drawn from rows.
TablesUpTo(rows, n) == UNION {[1..k -> rows] : k \in 0..n}

\* The tables a family of inputs holds fixed.
SomeProducts == <<Product("p1", "toys"), Product("p2", "books")>>

\* An order has one purchase timestamp and one delivered date: the line
\* items of one order agree on both.
ConsistentSales(t) ==
    \A i, j \in DOMAIN t :
        t[i].order_id = t[j].order_id =>
            /\ t[i].order_purchase_timestamp = t[j].order_purchase_timestamp
            /\ t[i].order_delivered_customer_date = t[j].order_delivered_customer_date

StatusOf == [o \in {"A", "B", "X"} |-> IF o = "A" THEN "delivered" ELSE "shipped"]

\* The order table that goes with a sales table: one row for each order of
\* the sales table that customer_of knows, purchased when its sales were.
OrdersFor(t, customer_of) ==
    LET firsts == FirstByOrder(
                      SelectSeq(t, LAMBDA r : r.order_id \in DOMAIN customer_of))
    IN  [i \in DOMAIN firsts |->
            Order(firsts[i].order_id, customer_of[firsts[i].order_id],
                  StatusOf[firsts[i].order_id],
                  firsts[i].year, firsts[i].month)]

BothCustomers == [o \in {"A", "B"} |-> IF o = "A" THEN "c1" ELSE "c2"]

SomeCustomers == <<Customer("c1", "SP"), Customer("c2", "RJ")>>

SomeReviews == <<Review("A", 4)>>

\* ------------------------------------------------------- the state machine

VARIABLES
    sales, products, orders, customers, reviews,  \* the caller's five tables
    dropped,                                      \* the columns they lack
    current_year, comparison_year, filter_month,  \* the call's arguments
    sales_data, orders_data,                      \* the parameters as rebound
    summary,                                      \* the dictionary being built
    pc,                                           \* the next statement
    call,                                         \* a direct call's arguments
    pending,                                      \* the tasks yet to run
    result,                                       \* what the call returned
    error                                         \* what the call raised

vars == <<sales, products, orders, customers, reviews, dropped, current_year,
          comparison_year, filter_month, sales_data, orders_data, summary, pc,
          call, pending, result, error>>

\* The tables a call can reach: the caller's objects and the parameters.
tables == <<sales, products, orders, customers, reviews, sales_data, orders_data>>

\* What no statement assigns.
arguments == <<dropped, current_year, comparison_year, filter_month>>

EmptyDict == [k \in {} |-> 0]

\* Nothing has been called yet.
Idle ==
    /\ sales_data = sales
    /\ orders_data = orders
    /\ summary = EmptyDict
    /\ call = None
    /\ pending = {}
    /\ result = None
    /\ error = None

\* generate_business_summary has been called: its parameters are bound.
Called ==
    /\ Idle
    /\ pc = "filter"

\* Line items of two orders over two years and three months, for the
\* revenue, order-value, order-count and monthly-trend bundles.
RevenueRows ==
    {Sale(o, "p1", ym[1], ym[2], price, None) :
        o \in {"A", "B"},
        ym \in {<<2022, 1>>, <<2023, 1>>, <<2023, 2>>, <<2023, 3>>},
        price \in {-50, 50, 100, 150}}

InitRevenue ==
    /\ sales \in {t \in TablesUpTo(RevenueRows, MaxSales) : ConsistentSales(t)}
    /\ products = SomeProducts
    /\ orders = OrdersFor(sales, BothCustomers)
    /\ customers = SomeCustomers
    /\ reviews = SomeReviews
    /\ current_year = DefaultCurrentYear
    /\ comparison_year = DefaultComparisonYear
    /\ filter_month \in {None, Some(1)}
    /\ dropped = {}
    /\ Called

\* Line items of two orders with delivered dates absent or -1, 3, 4, 5, 7
\* and 8 whole days after the purchase, for the delivery bundle.
DeliveryRows ==
    {Sale("A", "p1", 2023, 1, 100, d) :
        d \in {None, Some(0), Some(8), Some(9), Some(11), Some(16), Some(17)}}
    \cup {Sale("B", "p1", 2023, 1, 50, d) : d \in {None, Some(17)}}
    \cup {Sale("B", "p1", 2022, 1, 50, Some(9))}

ReviewRows == {Review("A", 1), Review("A", 4), Review("B", 5)}

InitDelivery ==
    /\ sales \in {t \in TablesUpTo(DeliveryRows, MaxSales) : ConsistentSales(t)}
    /\ products = SomeProducts
    /\ orders = OrdersFor(sales, BothCustomers)
    /\ customers = SomeCustomers
    /\ reviews \in TablesUpTo(ReviewRows, MaxReviews)
    /\ current_year = DefaultCurrentYear
    /\ comparison_year = DefaultComparisonYear
    /\ filter_month \in {None, Some(1)}
    /\ dropped = {}
    /\ Called

\* Line items whose product, order or customer may be missing from the
\* product, order and customer tables, for the category and geographic
\* bundles.  Order X has no order row, product p9 no product row and
\* customer c9 no customer row.
JoinRows ==
    {Sale(o, p, 2023, 1, price, None) :
        o \in {"A", "B", "X"}, p \in {"p1", "p2", "p9"}, price \in {50, 100}}
    \cup {Sale("A", "p1", 2022, 1, 50, None)}

OneCategory == <<Product("p1", "toys"), Product("p2", "toys")>>

LostCustomer == [o \in {"A", "B"} |-> IF o = "A" THEN "c1" ELSE "c9"]

InitJoin ==
    /\ sales \in {t \in TablesUpTo(JoinRows, MaxSales) : ConsistentSales(t)}
    /\ products \in {SomeProducts, OneCategory}
    /\ \E customer_of \in {BothCustomers, LostCustomer} :
          orders = OrdersFor(sales, customer_of)
    /\ customers = SomeCustomers
    /\ reviews = SomeReviews
    /\ current_year = DefaultCurrentYear
    /\ comparison_year = DefaultComparisonYear
    /\ filter_month \in {None, Some(1)}
    /\ dropped = {}
    /\ Called

\* Orders of three statuses purchased in either year, one row per order.
StatusRows ==
    {Order(o, "c1", status, y, 1) :
        o \in {"A", "B", "C"}, status \in {"delivered", "shipped", "canceled"},
        y \in {2022, 2023}}

InitStatus ==
    /\ sales = <<Sale("A", "p1", 2023, 1, 100, None)>>
    /\ products = SomeProducts
    /\ orders \in {t \in TablesUpTo(StatusRows, MaxOrders) :
                      \A i, j \in DOMAIN t :
                          t[i].order_id = t[j].order_id => i = j}
    /\ customers = SomeCustomers
    /\ reviews = SomeReviews
    /\ current_year = DefaultCurrentYear
    /\ comparison_year = DefaultComparisonYear
    /\ filter_month \in {None, Some(1)}
    /\ dropped = {}
    /\ Called

\* Line items of two orders over two years and two months and of a third
\* order of February 2023, for calls made one after another.
CallRows ==
    {Sale(o, "p1", y, m, 100, None) :
        o \in {"A", "B"}, y \in {2022, 2023}, m \in {1, 2}}
    \cup {Sale("C", "p1", 2023, 2, 100, None)}

\* The year and month arguments of a direct call of filter_data_by_period.
FilterYears == {None, Some(2022), Some(2023)}

FilterMonths == {None, Some(1), Some(2)}

InitCalls ==
    /\ sales \in {t \in TablesUpTo(CallRows, MaxCallRows) : ConsistentSales(t)}
    /\ products = SomeProducts
    /\ orders = OrdersFor(sales, BothCustomers)
    /\ customers = SomeCustomers
    /\ reviews = SomeReviews
    /\ current_year = DefaultCurrentYear
    /\ comparison_year = DefaultComparisonYear
    /\ filter_month \in {None, Some(1)}
    /\ dropped = {}
    /\ Idle
    /\ pc = "idle"

\* A column of one of the five tables.
Col(table, column) == [table |-> table, column |-> column]

\* The columns among accesses, in order, that their table lacks.
Missing(accesses) == SelectSeq(accesses, LAMBDA a : a \in dropped)

\* The columns each bundle function reads, in the order it reads them.
BundleAccesses(bundle) ==
    CASE bundle = "revenue" ->
            <<Col("sales", "year"), Col("sales", "price")>>
      [] bundle = "aov" ->
            <<Col("sales", "year"), Col("sales", "order_id"),
              Col("sales", "price")>>
      [] bundle = "orders" ->
            <<Col("sales", "year"), Col("sales", "order_id")>>
      [] bundle = "monthly_growth" ->
            <<Col("sales", "year"), Col("sales", "month"), Col("sales", "price")>>
      [] bundle = "category_performance" ->
            <<Col("sales", "year"), Col("products", "product_id"),
              Col("products", "product_category_name"),
              Col("sales", "product_id"), Col("sales", "price")>>
      [] bundle = "geographic_performance" ->
            <<Col("sales", "year"), Col("sales", "order_id"),
              Col("sales", "price"), Col("orders", "order_id"),
              Col("orders", "customer_id"), Col("customers", "customer_id"),
              Col("customers", "customer_state")>>
      [] bundle = "delivery_performance" ->
            <<Col("sales", "year"), Col("sales", "order_delivered_customer_date"),
              Col("sales", "order_purchase_timestamp"), Col("sales", "order_id"),
              Col("reviews", "order_id"), Col("reviews", "review_score")>>
      [] bundle = "order_status_distribution" ->
            <<Col("orders", "order_purchase_timestamp"),
              Col("orders", "order_status")>>

\* The values each bundle function can return on the sales and order
\* tables handed to it.
BundleValuesOn(bundle, sales_table, orders_table) ==
    CASE bundle = "revenue" ->
            {calculate_revenue_metrics(sales_table, current_year,
                                       comparison_year)}
      [] bundle = "aov" ->
            {calculate_average_order_value(sales_table, current_year,
                                           comparison_year)}
      [] bundle = "orders" ->
            {calculate_order_count_metrics(sales_table, current_year,
                                           comparison_year)}
      [] bundle = "monthly_growth" ->
            {calculate_monthly_growth_trend(sales_table, current_year)}
      [] bundle = "category_performance" ->
            calculate_product_category_performance(sales_table, products,
                                                   current_year)
      [] bundle = "geographic_performance" ->
            calculate_geographic_performance(sales_table, orders_table,
                                             customers, current_year)
      [] bundle = "delivery_performance" ->
            {calculate_delivery_performance_metrics(sales_table, reviews,
                                                    current_year)}
      [] bundle = "order_status_distribution" ->
            calculate_order_status_distribution(orders_table, current_year)

\* The values each bundle function can return on the tables as they are.
BundleValues(bundle) == BundleValuesOn(bundle, sales_data, orders_data)

\* The bundles one call computes (monthly_growth only without a month filter).
TaskBundles ==
    {"revenue", "aov", "orders", "category_performance",
     "geographic_performance", "delivery_performance",
     "order_status_distribution"}
    \cup (IF IsNone(filter_month) THEN {"monthly_growth"} ELSE {})

\* The exception is swallowed and the call goes on with the next statement.
Raise_swallow(access, next) ==
    /\ pc' = next
    /\ UNCHANGED <<summary, result, error>>

\* Reading a column the table lacks raises KeyError, which nothing catches:
\* the call ends without a result.
Raise(access, next) ==
    /\ error' = Some([type |-> "KeyError", column |-> access.column])
    /\ pc' = "raised"
    /\ UNCHANGED <<summary, result>>

\* summary = {key: value}: the dictionary is replaced.
Store_overwrite(key, value, next) ==
    /\ summary' = (key :> value)
    /\ pc' = next
    /\ UNCHANGED <<result, error>>

\* summary[key] = value, then on to the statement at next.
Store(key, value, next) ==
    /\ summary' = (key :> value) @@ summary
    /\ pc' = next
    /\ UNCHANGED <<result, error>>

\* What a bundle function does to the tables: only
\* calculate_order_status_distribution assigns a column, to the object its
\* copy() returned; orders_data is the caller's object when no month filter
\* rebound it.
TableEffect(bundle) ==
    IF bundle = "order_status_distribution"
          /\ Missing(BundleAccesses(bundle)) = <<>>
    THEN LET after == StatusYearData(orders_data, current_year).orders_data
         IN  /\ orders_data' = after
             /\ orders' = IF IsNone(filter_month) THEN after ELSE orders
             /\ UNCHANGED <<sales, products, customers, reviews, sales_data>>
    ELSE UNCHANGED tables

\* summary[bundle] = the bundle function's value, or its KeyError.
Compute(bundle, next) ==
    /\ IF Missing(BundleAccesses(bundle)) # <<>>
       THEN Raise(Missing(BundleAccesses(bundle))[1], next)
       ELSE \E value \in BundleValues(bundle) : Store(bundle, value, next)
    /\ TableEffect(bundle)
    /\ UNCHANGED <<arguments, call>>

\* One statement summary[bundle] = ... of the sequential code.
Bundle(bundle, next) ==
    /\ Compute(bundle, next)
    /\ UNCHANGED pending

\* if filter_month is not None: both tables are filtered by month alone.
ApplyMonthFilter ==
    /\ pc = "filter"
    /\ ~IsNone(filter_month)
    /\ LET s == FilterDataByPeriod(sales_data, None, filter_month,
                                   "order_purchase_timestamp")
           o == FilterDataByPeriod(orders_data, None, filter_month,
                                   "order_purchase_timestamp")
       IN  IF Col("sales", "order_purchase_timestamp") \in dropped
           THEN /\ Raise(Col("sales", "order_purchase_timestamp"), "revenue")
                /\ UNCHANGED tables
           ELSE IF Col("orders", "order_purchase_timestamp") \in dropped
           THEN /\ Raise(Col("orders", "order_purchase_timestamp"), "revenue")
                /\ sales' = s.data
                /\ sales_data' = s.result
                /\ UNCHANGED <<products, orders, customers, reviews, orders_data>>
           ELSE /\ sales' = s.data
                /\ sales_data' = s.result
                /\ orders' = o.data
                /\ orders_data' = o.result
                /\ pc' = "revenue"
                /\ UNCHANGED <<products, customers, reviews, summary, result,
                               error>>
    /\ UNCHANGED <<arguments, call, pending>>

SkipMonthFilter ==
    /\ pc = "filter"
    /\ IsNone(filter_month)
    /\ pc' = "revenue"
    /\ UNCHANGED <<tables, arguments, summary, call, pending, result, error>>

RevenueMetrics ==
    /\ pc = "revenue"
    /\ Bundle("revenue", "aov")

AverageOrderValue ==
    /\ pc = "aov"
    /\ Bundle("aov", "orders")

OrderCountMetrics ==
    /\ pc = "orders"
    /\ Bundle("orders", "monthly_growth")

\* MonthlyGrowthTrend without the test of filter_month.
MonthlyGrowthTrend_unconditional ==
    /\ pc = "monthly_growth"
    /\ Bundle("monthly_growth", "category_performance")

MonthlyGrowthTrend ==
    /\ pc = "monthly_growth"
    /\ IsNone(filter_month)
    /\ Bundle("monthly_growth", "category_performance")

SkipMonthlyGrowthTrend ==
    /\ pc = "monthly_growth"
    /\ ~IsNone(filter_month)
    /\ pc' = "category_performance"
    /\ UNCHANGED <<tables, arguments, summary, call, pending, result, error>>

ProductCategoryPerformance ==
    /\ pc = "category_performance"
    /\ Bundle("category_performance", "geographic_performance")

GeographicPerformance ==
    /\ pc = "geographic_performance"
    /\ Bundle("geographic_performance", "delivery_performance")

DeliveryPerformanceMetrics ==
    /\ pc = "delivery_performance"
    /\ Bundle("delivery_performance", "order_status_distribution")

OrderStatusDistribution ==
    /\ pc = "order_status_distribution"
    /\ Bundle("order_status_distribution", "return")

\* return summary
Return ==
    /\ pc = "return"
    /\ result' = Some(summary)
    /\ pc' = "done"
    /\ UNCHANGED <<tables, arguments, summary, call, pending, error>>

Next ==
    \/ ApplyMonthFilter
    \/ SkipMonthFilter
    \/ RevenueMetrics
    \/ AverageOrderValue
    \/ OrderCountMetrics
    \/ MonthlyGrowthTrend
    \/ SkipMonthlyGrowthTrend
    \/ ProductCategoryPerformance
    \/ GeographicPerformance
    \/ DeliveryPerformanceMetrics
    \/ OrderStatusDistribution
    \/ Return

\* Line items of two orders of different products over two years and two
\* months, for bundles computed as tasks.
ConcurrentRows ==
    {Sale(op[1], op[2], y, m, 100, None) :
        op \in {<<"A", "p1">>, <<"B", "p2">>}, y \in {2022, 2023}, m \in {1, 2}}

InitConcurrent ==
    /\ sales \in {t \in TablesUpTo(ConcurrentRows, MaxSales) : ConsistentSales(t)}
    /\ products = SomeProducts
    /\ orders = OrdersFor(sales, BothCustomers)
    /\ customers = SomeCustomers
    /\ reviews = SomeReviews
    /\ current_year = DefaultCurrentYear
    /\ comparison_year = DefaultComparisonYear
    /\ filter_month \in {None, Some(1)}
    /\ dropped = {}
    /\ Called

\* The columns the code reads of the five tables.
SchemaColumns ==
    UNION {{BundleAccesses(b)[i] : i \in DOMAIN BundleAccesses(b)} :
              b \in {"revenue", "aov", "orders", "monthly_growth",
                     "category_performance", "geographic_performance",
                     "delivery_performance", "order_status_distribution"}}

\* The table t, named table, without the columns it is to lack.
Lacking(t, table, lacks) ==
    DropColumns(t, {c.column : c \in {d \in lacks : d.table = table}})

\* Sales tables for calls on tables that lack a column.
SchemaSales ==
    {<<Sale("A", "p1", 2023, 1, 100, Some(8)), Sale("B", "p2", 2022, 1, 50, None)>>,
     <<Sale("A", "p1", 2023, 1, 100, None)>>,
     <<>>}

\* Tables of which at most one lacks one column.
InitSchema ==
    /\ dropped \in {{}} \cup {{c} : c \in SchemaColumns}
    /\ \E t \in SchemaSales :
          /\ sales = Lacking(t, "sales", dropped)
          /\ orders = Lacking(OrdersFor(t, BothCustomers), "orders", dropped)
    /\ products = Lacking(SomeProducts, "products", dropped)
    /\ customers = Lacking(SomeCustomers, "customers", dropped)
    /\ reviews = Lacking(SomeReviews, "reviews", dropped)
    /\ current_year = DefaultCurrentYear
    /\ comparison_year = DefaultComparisonYear
    /\ filter_month \in {None, Some(1)}
    /\ Called

\* No call is running: none was made yet, or the last one returned or raised.
BetweenCalls == pc \in {"idle", "done", "raised"}

\* A call of generate_business_summary on the caller's tables: the
\* parameters are bound to the caller's objects.
CallBusinessSummary ==
    /\ BetweenCalls
    /\ sales_data' = sales
    /\ orders_data' = orders
    /\ summary' = EmptyDict
    /\ call' = Some([function |-> "generate_business_summary"])
    /\ result' = None
    /\ error' = None
    /\ pc' = "filter"
    /\ UNCHANGED <<sales, products, orders, customers, reviews, arguments,
                   pending>>

\* A call of filter_data_by_period on one of the caller's tables.
CallFilterDataByPeriod ==
    /\ BetweenCalls
    /\ \E table \in {"sales", "orders"}, year \in FilterYears,
          month \in FilterMonths :
          LET data == IF table = "sales" THEN sales ELSE orders
              f == FilterDataByPeriod(data, year, month,
                                      "order_purchase_timestamp")
              raises == Col(table, "order_purchase_timestamp") \in dropped
          IN  /\ call' = Some([function |-> "filter_data_by_period",
                               table |-> table, year |-> year, month |-> month])
              /\ result' = IF raises THEN None ELSE Some(f.result)
              /\ error' = IF raises
                          THEN Some([type |-> "KeyError",
                                     column |-> "order_purchase_timestamp"])
                          ELSE None
              /\ sales' = IF table = "sales" /\ ~raises THEN f.data ELSE sales
              /\ orders' = IF table = "orders" /\ ~raises THEN f.data ELSE orders
    /\ sales_data' = sales'
    /\ orders_data' = orders'
    /\ summary' = EmptyDict
    /\ pc' = IF error' = None THEN "done" ELSE "raised"
    /\ UNCHANGED <<products, customers, reviews, arguments, pending>>

\* Calls made one after another, each on the tables the one before left.
NextCalls ==
    \/ CallBusinessSummary
    \/ CallFilterDataByPeriod
    \/ Next

\* The bundles are handed to tasks where the sequential code computes its
\* first bundle.
Fork ==
    /\ pc = "revenue"
    /\ pending' = TaskBundles
    /\ pc' = "tasks"
    /\ UNCHANGED <<tables, arguments, summary, call, result, error>>

\* One task computes its bundle and stores it under its own key.
Task(bundle) ==
    /\ pc = "tasks"
    /\ bundle \in pending
    /\ pending' = pending \ {bundle}
    /\ Compute(bundle, "tasks")

\* Any of the tasks yet to run may be the next to run.
RunTask == \E bundle \in pending : Task(bundle)

\* Every task has run.
Join ==
    /\ pc = "tasks"
    /\ pending = {}
    /\ pc' = "return"
    /\ UNCHANGED <<tables, arguments, summary, call, pending, result, error>>

\* generate_business_summary with its bundles computed as tasks, in any
\* order.
NextConcurrent ==
    \/ ApplyMonthFilter
    \/ SkipMonthFilter
    \/ Fork
    \/ RunTask
    \/ Join
    \/ Return

SpecRevenue == InitRevenue /\ [][Next]_vars

SpecDelivery == InitDelivery /\ [][Next]_vars

SpecJoin == InitJoin /\ [][Next]_vars

SpecStatus == InitStatus /\ [][Next]_vars

SpecCalls == InitCalls /\ [][NextCalls]_vars

SpecSchema == InitSchema /\ [][Next]_vars

SpecConcurrent == InitConcurrent /\ [][NextConcurrent]_vars

\* ------------------------------------------------------------------ claims

\* g is ((c - p) / p) * 100 for finite c and finite nonzero p, by cross
\* multiplication over the integers.
IsGrowthOf(g, c, p) ==
    /\ g.d > 0
    /\ g.n * c.d * p.n = 100 * (c.n * p.d - p.n * c.d) * g.d

\* growth is what the zero-safe policy asks of current and previous.
ZeroSafeGrowth(growth, current, previous) ==
    /\ IsZero(previous) => growth = FromInt(0)
    /\ (IsFinite(previous) /\ ~IsZero(previous) /\ IsFinite(current)) =>
           IsGrowthOf(growth, current, previous)

\* C1: in the revenue, average-order-value and order-count bundles the growth
\* is ((current - previous) / previous) * 100 when previous is nonzero and
\* exactly 0 when previous is 0, whatever current is.
C1_GrowthZeroSafe ==
    /\ "revenue" \in DOMAIN summary =>
           ZeroSafeGrowth(summary["revenue"].revenue_growth,
                          summary["revenue"].current_revenue,
                          summary["revenue"].previous_revenue)
    /\ "aov" \in DOMAIN summary =>
           ZeroSafeGrowth(summary["aov"].aov_growth,
                          summary["aov"].current_aov,
                          summary["aov"].previous_aov)
    /\ "orders" \in DOMAIN summary =>
           ZeroSafeGrowth(summary["orders"].order_growth,
                          summary["orders"].current_orders,
                          summary["orders"].previous_orders)

\* C1 witness: a finished call where the formula was used with a negative
\* current revenue (100 then -50: -150 percent) and where equal nonzero
\* order counts gave 0.
C1_Witness ==
    /\ pc = "done"
    /\ summary["revenue"].current_revenue.n < 0
    /\ ~IsZero(summary["revenue"].previous_revenue)
    /\ summary["revenue"].revenue_growth = FromInt(-150)
    /\ ~IsZero(summary["orders"].previous_orders)
    /\ summary["orders"].current_orders = summary["orders"].previous_orders
    /\ summary["orders"].order_growth = FromInt(0)

\* C2: when the comparison year has no sale rows, the previous average order
\* value counts as 0 and aov_growth is 0, a number, whatever the current
\* year's value is (stated for a current year that has sale rows).
C2_EmptyComparisonGrowthZero ==
    ("aov" \in DOMAIN summary
        /\ RowsWhere(sales_data, "year", comparison_year) = <<>>
        /\ RowsWhere(sales_data, "year", current_year) # <<>>) =>
        /\ summary["aov"].aov_growth = FromInt(0)
        /\ ~IsNaN(summary["aov"].aov_growth)

\* The rows of t at the positions in I, in row order.
RECURSIVE Pick(_, _, _)
Pick(t, I, i) ==
    IF i > Len(t) THEN <<>>
    ELSE (IF i \in I THEN <<t[i]>> ELSE <<>>) \o Pick(t, I, i + 1)

\* The sum of price over the positions in I.
RECURSIVE PriceAt(_, _)
PriceAt(t, I) ==
    IF I = {} THEN 0
    ELSE LET i == CHOOSE x \in I : TRUE
         IN  t[i].price + PriceAt(t, I \ {i})

YearPositions(t, y) == {i \in DOMAIN t : t[i].year = y}

\* C7: each year's revenue is the sum of price over every sale row of that
\* year, so it is the sum of the revenues of the two parts of any partition
\* of the table; sales of 100 and 50 against an empty comparison year give
\* 150, 0 and growth 0.
C7_RevenueAdditive ==
    "revenue" \in DOMAIN summary =>
        LET r == summary["revenue"]
        IN  /\ r.current_revenue =
                   FromInt(PriceAt(sales_data, YearPositions(sales_data, current_year)))
            /\ r.previous_revenue =
                   FromInt(PriceAt(sales_data, YearPositions(sales_data, comparison_year)))
            /\ \A I \in SUBSET DOMAIN sales_data :
                   LET a == calculate_revenue_metrics(
                                Pick(sales_data, I, 1), current_year, comparison_year)
                       b == calculate_revenue_metrics(
                                Pick(sales_data, DOMAIN sales_data \ I, 1),
                                current_year, comparison_year)
                   IN  /\ r.current_revenue = RAdd(a.current_revenue, b.current_revenue)
                       /\ r.previous_revenue = RAdd(a.previous_revenue, b.previous_revenue)
            /\ (Len(sales_data) = 2
                    /\ \A i \in 1..2 : sales_data[i].year = current_year
                    /\ sales_data[1].price = 100 /\ sales_data[2].price = 50) =>
                   r = [current_revenue |-> FromInt(150),
                        previous_revenue |-> FromInt(0),
                        revenue_growth |-> FromInt(0)]

\* C7 witness: two line items of one order, 100 and 50, in the current year.
C7_Witness ==
    /\ pc = "done"
    /\ Len(sales_data) = 2
    /\ sales_data[1].order_id = sales_data[2].order_id
    /\ sales_data[1].year = current_year
    /\ sales_data[1].price = 100 /\ sales_data[2].price = 50
    /\ summary["revenue"].current_revenue = FromInt(150)

\* The revenue of month m of year y, summed over the positions of the table.
MonthRevenue(t, y, m) ==
    PriceAt(t, {i \in DOMAIN t : t[i].year = y /\ t[i].month = m})

\* g is the float64 percentage change from prev to cur: the ratio when prev
\* is nonzero, an infinity of cur's sign or NaN when prev is 0.
IsPctChange(g, cur, prev) ==
    IF prev # 0 THEN IsGrowthOf(g, FromInt(cur), FromInt(prev))
    ELSE g = [n |-> Sign(cur), d |-> 0]

\* C8: the first entry of monthly_growth_trend is NaN, never 0, and each
\* later entry is the percentage change of its month's revenue against the
\* revenue of the entry before it ([100, 150] gives [NaN, 50]).
C8_MonthlyGrowth ==
    "monthly_growth" \in DOMAIN summary =>
        LET g == summary["monthly_growth"]
        IN  /\ Len(g) >= 1 => IsNaN(g[1].growth) /\ g[1].growth # FromInt(0)
            /\ \A i \in 2..Len(g) :
                   IsPctChange(g[i].growth,
                               MonthRevenue(sales_data, current_year, g[i].month),
                               MonthRevenue(sales_data, current_year, g[i - 1].month))

\* C8 witness: January 100 and February 150 gave [NaN, 50].
C8_Witness ==
    /\ pc = "done"
    /\ MonthRevenue(sales_data, current_year, 1) = 100
    /\ MonthRevenue(sales_data, current_year, 2) = 150
    /\ summary["monthly_growth"] =
           <<[month |-> 1, growth |-> NaN], [month |-> 2, growth |-> FromInt(50)]>>

AlwaysBundles ==
    {"revenue", "aov", "orders", "category_performance",
     "geographic_performance", "delivery_performance",
     "order_status_distribution"}

\* C9: a finished business_summary holds the seven bundles of every call,
\* and monthly_growth exactly when no month filter was supplied.
C9_Bundles ==
    pc = "done" =>
        DOMAIN summary =
            AlwaysBundles \cup
            (IF IsNone(filter_month) THEN {"monthly_growth"} ELSE {})

\* C9 witness: a finished call with a month filter and rows of that month,
\* without the monthly_growth bundle.
C9_Witness ==
    /\ pc = "done"
    /\ ~IsNone(filter_month)
    /\ sales_data # <<>>
    /\ "monthly_growth" \notin DOMAIN summary
    /\ AlwaysBundles \subseteq DOMAIN summary

\* The delivery_reviews table of the call in progress.
CurrentDeliveryReviews == DeliveryReviews(sales_data, reviews, current_year)

\* The sale rows whose delivered date is present.
Delivered(t) ==
    SelectSeq(t, LAMBDA r : ~IsNone(r.order_delivered_customer_date))

\* C3: a sale row without a delivered date is excluded from every delivery
\* metric: it is in no speed bucket and its review score counts nowhere, so
\* the metrics are those of the table without such rows.
C3_AbsentExcluded ==
    "delivery_performance" \in DOMAIN summary =>
        /\ \A i \in DOMAIN CurrentDeliveryReviews :
               ~IsNaN(CurrentDeliveryReviews[i].delivery_speed)
        /\ summary["delivery_performance"] =
               calculate_delivery_performance_metrics(
                   Delivered(sales_data), reviews, current_year)

\* C4: every row with a defined whole-day delivery speed is in exactly one
\* bucket: fast when speed <= 3 (negative speeds too), standard when
\* 4 <= speed <= 7, slow when speed >= 8.
C4_BucketPartition ==
    "delivery_performance" \in DOMAIN summary =>
        \A i \in DOMAIN CurrentDeliveryReviews :
            LET days == CurrentDeliveryReviews[i].delivery_speed
                bucket == CurrentDeliveryReviews[i].delivery_category
            IN  IsFinite(days) =>
                    /\ days.d = 1
                    /\ bucket \in {"fast", "standard", "slow"}
                    /\ (bucket = "fast") <=> (days.n <= 3)
                    /\ (bucket = "standard") <=> (4 <= days.n /\ days.n <= 7)
                    /\ (bucket = "slow") <=> (days.n >= 8)

\* C4 witness: one finished call bucketed a negative speed as fast and a
\* speed of 8 days as slow.
C4_Witness ==
    /\ pc = "done"
    /\ \E i, j \in DOMAIN CurrentDeliveryReviews :
          /\ CurrentDeliveryReviews[i].delivery_speed = FromInt(-1)
          /\ CurrentDeliveryReviews[i].delivery_category = "fast"
          /\ CurrentDeliveryReviews[j].delivery_speed = FromInt(8)
          /\ CurrentDeliveryReviews[j].delivery_category = "slow"

\* The positions of delivery_reviews that are in the bucket.
BucketPositions(bucket) ==
    {i \in DOMAIN CurrentDeliveryReviews :
        CurrentDeliveryReviews[i].delivery_category = bucket}

RECURSIVE ScoreAt(_, _)
ScoreAt(t, I) ==
    IF I = {} THEN 0
    ELSE LET i == CHOOSE x \in I : TRUE
         IN  t[i].review_score + ScoreAt(t, I \ {i})

\* score is 0 for an empty bucket and the mean review score of the bucket's
\* rows otherwise.
IsBucketScore(score, bucket) ==
    LET I == BucketPositions(bucket)
    IN  IF I = {} THEN score = FromInt(0)
        ELSE /\ score.d > 0
             /\ score.n * Cardinality(I) = ScoreAt(CurrentDeliveryReviews, I) * score.d

\* C5: delivery_performance_metrics always has the keys fast_delivery_score,
\* standard_delivery_score and slow_delivery_score; a bucket without rows
\* reports 0 and a bucket with rows the mean review score of its rows.
C5_BucketScores ==
    "delivery_performance" \in DOMAIN summary =>
        LET m == summary["delivery_performance"]
        IN  /\ {"fast_delivery_score", "standard_delivery_score",
                "slow_delivery_score"} \subseteq DOMAIN m
            /\ IsBucketScore(m.fast_delivery_score, "fast")
            /\ IsBucketScore(m.standard_delivery_score, "standard")
            /\ IsBucketScore(m.slow_delivery_score, "slow")

\* C5 witness: one sale delivered 5 days after its purchase, with a review
\* score of 4.
C5_Witness ==
    /\ pc = "done"
    /\ Len(sales_data) = 1
    /\ DeliverySpeed(sales_data[1]) = FromInt(5)
    /\ reviews = <<Review(sales_data[1].order_id, 4)>>
    /\ summary["delivery_performance"] =
           [avg_delivery_days |-> FromInt(5), avg_review_score |-> FromInt(4),
            fast_delivery_score |-> FromInt(0),
            standard_delivery_score |-> FromInt(4),
            slow_delivery_score |-> FromInt(0)]

\* C6: after the sale-review join each order_id contributes at most one row
\* to the review and delivery-day averages, however many line items or
\* review rows it has (stated for tables whose sales all have a delivered
\* date, the case the claim is about).
C6_OneRowPerOrder ==
    ("delivery_performance" \in DOMAIN summary
        /\ Delivered(sales_data) = sales_data) =>
        \A o \in Keys(CurrentDeliveryReviews, "order_id") :
            Cardinality({i \in DOMAIN CurrentDeliveryReviews :
                            CurrentDeliveryReviews[i].order_id = o}) <= 1

\* The sale rows of the current year that survive the product join.
CategoryMatched ==
    {i \in DOMAIN sales_data :
        /\ sales_data[i].year = current_year
        /\ sales_data[i].product_id \in Keys(products, "product_id")}

\* The sale rows of the current year that survive both joins to a customer.
GeographicMatched ==
    {i \in DOMAIN sales_data :
        /\ sales_data[i].year = current_year
        /\ \E j \in DOMAIN orders_data :
              /\ orders_data[j].order_id = sales_data[i].order_id
              /\ orders_data[j].customer_id \in Keys(customers, "customer_id")}

CategoryOf(i) ==
    LET j == CHOOSE k \in DOMAIN products :
                 products[k].product_id = sales_data[i].product_id
    IN  products[j].product_category_name

StateOf(i) ==
    LET j == CHOOSE k \in DOMAIN orders_data :
                 orders_data[k].order_id = sales_data[i].order_id
        c == CHOOSE k \in DOMAIN customers :
                 customers[k].customer_id = orders_data[j].customer_id
    IN  customers[c].customer_state

\* C10: the joins are inner joins: a sale whose product, order or customer
\* is missing contributes nothing, so each listed group's revenue is the
\* price total of its matched sale rows of the year, there is no other
\* group, and the revenues sum to the price total of the matched rows.
C10_InnerJoins ==
    /\ "category_performance" \in DOMAIN summary =>
           LET out == summary["category_performance"]
           IN  /\ SumCol(out, "price") = PriceAt(sales_data, CategoryMatched)
               /\ Keys(out, "product_category_name") =
                      {CategoryOf(i) : i \in CategoryMatched}
               /\ \A k \in DOMAIN out :
                      out[k].price =
                          PriceAt(sales_data,
                                  {i \in CategoryMatched :
                                      CategoryOf(i) = out[k].product_category_name})
    /\ "geographic_performance" \in DOMAIN summary =>
           LET out == summary["geographic_performance"]
           IN  /\ SumCol(out, "price") = PriceAt(sales_data, GeographicMatched)
               /\ Keys(out, "customer_state") =
                      {StateOf(i) : i \in GeographicMatched}
               /\ \A k \in DOMAIN out :
                      out[k].price =
                          PriceAt(sales_data,
                                  {i \in GeographicMatched :
                                      StateOf(i) = out[k].customer_state})

\* C10 witness: a finished call dropped a sale of an unknown product from
\* the categories and a sale of an unknown order or customer from the
\* states, and kept a matched sale in each.
C10_Witness ==
    /\ pc = "done"
    /\ \E i \in DOMAIN sales_data :
          sales_data[i].year = current_year /\ i \notin CategoryMatched
    /\ \E i \in DOMAIN sales_data :
          sales_data[i].year = current_year /\ i \notin GeographicMatched
    /\ CategoryMatched # {}
    /\ GeographicMatched # {}
    /\ SumCol(summary["category_performance"], "price") <
           PriceAt(sales_data, YearPositions(sales_data, current_year))
    /\ SumCol(summary["geographic_performance"], "price") <
           PriceAt(sales_data, YearPositions(sales_data, current_year))

\* The first sale row, in the table's order, that counts towards a category
\* and towards a state.
FirstOfCategory(c) ==
    CHOOSE i \in CategoryMatched :
        /\ CategoryOf(i) = c
        /\ \A j \in CategoryMatched : CategoryOf(j) = c => i <= j

FirstOfState(s) ==
    CHOOSE i \in GeographicMatched :
        /\ StateOf(i) = s
        /\ \A j \in GeographicMatched : StateOf(j) = s => i <= j

\* A ranked table lists each group once, revenue never increasing downwards.
IsRanked(out, key) ==
    /\ \A i, j \in DOMAIN out : i # j => out[i][key] # out[j][key]
    /\ \A i \in DOMAIN out : i < Len(out) => out[i].price >= out[i + 1].price

\* Groups of equal revenue stand in the order of their first rows.
TiesByFirstRow(out, key, First(_)) ==
    \A i, j \in DOMAIN out :
        i < j /\ out[i].price = out[j].price =>
            First(out[i][key]) < First(out[j][key])

\* The alphabetical order of the group keys, which groupby() lays the
\* groups out in before they are ranked.
KeyRank == [k \in {"RJ", "SP", "books", "toys"} |->
               CASE k = "RJ" -> 1 [] k = "SP" -> 2 [] k = "books" -> 3
                 [] k = "toys" -> 4]

\* Groups of equal revenue stand in the alphabetical order of their keys.
TiesByKey(out, key) ==
    \A i, j \in DOMAIN out :
        i < j /\ out[i].price = out[j].price =>
            KeyRank[out[i][key]] < KeyRank[out[j][key]]

\* C11 (as stated): category and geographic performance are sorted
\* descending by revenue with ties in the order of the groups' first
\* occurrence in the table's rows. Checked on the outputs whose ties are
\* in the order groupby() produced, which a sort that moves no equal
\* values returns.
C11_StableTies ==
    /\ "category_performance" \in DOMAIN summary =>
           LET out == summary["category_performance"]
           IN  TiesByKey(out, "product_category_name") =>
                   /\ IsRanked(out, "product_category_name")
                   /\ TiesByFirstRow(out, "product_category_name", FirstOfCategory)
    /\ "geographic_performance" \in DOMAIN summary =>
           LET out == summary["geographic_performance"]
           IN  TiesByKey(out, "customer_state") =>
                   /\ IsRanked(out, "customer_state")
                   /\ TiesByFirstRow(out, "customer_state", FirstOfState)

\* C11 (amended): category and geographic performance list each group
\* once, sorted descending by revenue; the order of groups of equal revenue
\* is not tied to the rows' order.
C11_RankedDescending ==
    /\ "category_performance" \in DOMAIN summary =>
           IsRanked(summary["category_performance"], "product_category_name")
    /\ "geographic_performance" \in DOMAIN summary =>
           IsRanked(summary["geographic_performance"], "customer_state")

\* C11 witness: a finished call ranked two categories and two states of
\* different revenue, the category whose rows come later in the table first.
C11_Witness ==
    /\ pc = "done"
    /\ LET out == summary["category_performance"]
       IN  /\ Len(out) = 2
           /\ out[1].price > out[2].price
           /\ FirstOfCategory(out[2].product_category_name) <
                  FirstOfCategory(out[1].product_category_name)
    /\ LET out == summary["geographic_performance"]
       IN  /\ Len(out) = 2
           /\ out[1].price > out[2].price

\* The months of the current year that have at least one sale row.
MonthsWithRows ==
    {sales_data[i].month :
        i \in {k \in DOMAIN sales_data : sales_data[k].year = current_year}}

\* The nearest month before m that has rows (0 when there is none).
NearestEarlier(m) ==
    LET earlier == {k \in MonthsWithRows : k < m}
    IN  IF earlier = {} THEN 0
        ELSE CHOOSE k \in earlier : \A e \in earlier : e <= k

\* C18: monthly_growth_trend has exactly one entry for each month that has
\* at least one sale row in the year, in ascending month order; a month
\* without rows has no entry, and each later entry is computed against the
\* nearest earlier month that has rows.
C18_MonthsWithRows ==
    "monthly_growth" \in DOMAIN summary =>
        LET g == summary["monthly_growth"]
        IN  /\ {g[i].month : i \in DOMAIN g} = MonthsWithRows
            /\ Len(g) = Cardinality(MonthsWithRows)
            /\ \A i \in DOMAIN g : i < Len(g) => g[i].month < g[i + 1].month
            /\ \A i \in DOMAIN g :
                   NearestEarlier(g[i].month) # 0 =>
                       IsPctChange(g[i].growth,
                                   MonthRevenue(sales_data, current_year,
                                                g[i].month),
                                   MonthRevenue(sales_data, current_year,
                                                NearestEarlier(g[i].month)))

\* C18 witness: January 100, no row in February, March 150: two entries,
\* March against January.
C18_Witness ==
    /\ pc = "done"
    /\ MonthsWithRows = {1, 3}
    /\ MonthRevenue(sales_data, current_year, 1) = 100
    /\ MonthRevenue(sales_data, current_year, 3) = 150
    /\ summary["monthly_growth"] =
           <<[month |-> 1, growth |-> NaN], [month |-> 3, growth |-> FromInt(50)]>>

\* The call's tables have no sale row of either year and no order purchased
\* in the current year.
EmptyYears ==
    /\ pc # "filter"
    /\ RowsWhere(sales_data, "year", current_year) = <<>>
    /\ RowsWhere(sales_data, "year", comparison_year) = <<>>
    /\ \A i \in DOMAIN orders_data :
          orders_data[i].order_purchase_timestamp.year # current_year

\* Every bundle stored so far has its degenerate value, average_order_value's
\* growth left aside: sums and counts 0, their growth 0, means NaN, bucket
\* scores their default 0, grouped and ranked outputs empty.
EmptyOutputs ==
    /\ "revenue" \in DOMAIN summary =>
           summary["revenue"] = [current_revenue |-> FromInt(0),
                                 previous_revenue |-> FromInt(0),
                                 revenue_growth |-> FromInt(0)]
    /\ "aov" \in DOMAIN summary =>
           /\ IsNaN(summary["aov"].current_aov)
           /\ IsNaN(summary["aov"].previous_aov)
    /\ "orders" \in DOMAIN summary =>
           summary["orders"] = [current_orders |-> FromInt(0),
                                previous_orders |-> FromInt(0),
                                order_growth |-> FromInt(0)]
    /\ "monthly_growth" \in DOMAIN summary =>
           summary["monthly_growth"] = <<>>
    /\ "category_performance" \in DOMAIN summary =>
           summary["category_performance"] = <<>>
    /\ "geographic_performance" \in DOMAIN summary =>
           summary["geographic_performance"] = <<>>
    /\ "delivery_performance" \in DOMAIN summary =>
           summary["delivery_performance"] =
               [avg_delivery_days |-> NaN,
                avg_review_score |-> NaN,
                fast_delivery_score |-> FromInt(0),
                standard_delivery_score |-> FromInt(0),
                slow_delivery_score |-> FromInt(0)]
    /\ "order_status_distribution" \in DOMAIN summary =>
           summary["order_status_distribution"] = <<>>

\* The call on empty years goes through: nothing is raised, the outputs are
\* the degenerate ones, and the finished call returned all of them.
EmptyDegrades ==
    EmptyYears =>
        /\ error = None
        /\ pc # "raised"
        /\ EmptyOutputs
        /\ pc = "done" => result = Some(summary) /\ DOMAIN summary = TaskBundles

\* C16: empty inputs never raise: for a year (or year and month) without
\* sale or order rows every bundle function and business_summary returns
\* normally, with sums and distinct counts 0, growth values 0, means the
\* empty sentinel, and grouped and ranked outputs empty.
C16_EmptyNeverRaises ==
    /\ EmptyDegrades
    /\ (EmptyYears /\ "aov" \in DOMAIN summary) =>
           summary["aov"].aov_growth = FromInt(0)

\* The orders the status distribution is taken over: those purchased in the
\* current year.
YearOrders ==
    {i \in DOMAIN orders_data :
        orders_data[i].order_purchase_timestamp.year = current_year}

\* The sum of the shares of a status distribution.
RECURSIVE ShareSum(_)
ShareSum(out) ==
    IF out = <<>> THEN FromInt(0) ELSE RAdd(Head(out).share, ShareSum(Tail(out)))

\* C12: order_status_distribution(year) lists each order_status occurring
\* among the orders purchased in that year, once, with the share
\* 100 * (orders with that status) / (orders of that year); a status
\* without an order in the year is not listed, and the shares of a
\* non-empty year sum to 100.
C12_StatusShares ==
    "order_status_distribution" \in DOMAIN summary =>
        LET out == summary["order_status_distribution"]
            count(s) == Cardinality({i \in YearOrders :
                                        orders_data[i].order_status = s})
        IN  /\ {out[k].order_status : k \in DOMAIN out} =
                   {orders_data[i].order_status : i \in YearOrders}
            /\ \A k, l \in DOMAIN out :
                   out[k].order_status = out[l].order_status => k = l
            /\ \A k \in DOMAIN out :
                   /\ out[k].share.d > 0
                   /\ out[k].share.n * Cardinality(YearOrders) =
                          100 * count(out[k].order_status) * out[k].share.d
            /\ YearOrders # {} => ShareSum(out) = FromInt(100)

\* C12 witness: of two orders of the year one is delivered and one shipped,
\* an order of the other year is canceled: 50 each, canceled not listed.
C12_Witness ==
    /\ pc = "done"
    /\ Cardinality(YearOrders) = 2
    /\ \E i \in DOMAIN orders_data :
          /\ i \notin YearOrders
          /\ orders_data[i].order_status = "canceled"
    /\ summary["order_status_distribution"] \in
           {<<[order_status |-> "delivered", share |-> FromInt(50)],
              [order_status |-> "shipped", share |-> FromInt(50)]>>,
            <<[order_status |-> "shipped", share |-> FromInt(50)],
              [order_status |-> "delivered", share |-> FromInt(50)]>>}

\* The table a direct call of filter_data_by_period was made on.
CalledTable == IF call[1].table = "sales" THEN sales ELSE orders

\* The positions of the rows that pass the filters given.
PeriodPositions(t, year, month) ==
    {i \in DOMAIN t :
        /\ ~IsNone(year) => t[i].order_purchase_timestamp.year = year[1]
        /\ ~IsNone(month) => t[i].order_purchase_timestamp.month = month[1]}

\* The rows of t with the date as it was before pd.to_datetime.
Unparsed(t) ==
    [i \in DOMAIN t |-> [t[i] EXCEPT !.order_purchase_timestamp.parsed = FALSE]]

FilterReturned ==
    /\ call # None
    /\ call[1].function = "filter_data_by_period"
    /\ result # None

\* C13: filter_by_period returns exactly the rows of the table, in their
\* order, whose date's year equals year (when given) and whose date's month
\* equals month (when given); with neither given it returns every row, with
\* only month given the rows of every year that have that month.
C13_FilterByPeriod ==
    FilterReturned =>
        /\ Unparsed(result[1]) =
               Pick(CalledTable,
                    PeriodPositions(CalledTable, call[1].year, call[1].month), 1)
        /\ (IsNone(call[1].year) /\ IsNone(call[1].month)) =>
               Unparsed(result[1]) = CalledTable

\* C13 witness: a call with only the month given kept a row of each year
\* and dropped a row of another month.
C13_Witness ==
    /\ FilterReturned
    /\ IsNone(call[1].year)
    /\ ~IsNone(call[1].month)
    /\ \E i, j \in DOMAIN result[1] :
          result[1][i].order_purchase_timestamp.year #
              result[1][j].order_purchase_timestamp.year
    /\ Len(result[1]) < Len(CalledTable)

\* C14: no operation changes its input tables: across every step of
\* filter_data_by_period, of the eight bundle functions and of
\* generate_business_summary, in calls made one after another, the caller's
\* five tables keep every row, column and value.
C14_InputsUntouched ==
    [][/\ sales' = sales
       /\ products' = products
       /\ orders' = orders
       /\ customers' = customers
       /\ reviews' = reviews]_vars

\* C14 witness: a month-filtered summary ran to its end on tables a direct
\* filter call had been made on before; the filtered table it worked on has
\* parsed dates and fewer rows, the caller's table has neither.
C14_Witness ==
    /\ pc = "done"
    /\ call = Some([function |-> "generate_business_summary"])
    /\ ~IsNone(filter_month)
    /\ "order_status_distribution" \in DOMAIN summary
    /\ Len(sales_data) < Len(sales)
    /\ sales_data # <<>>
    /\ \A i \in DOMAIN sales_data : sales_data[i].order_purchase_timestamp.parsed
    /\ \A i \in DOMAIN sales : ~sales[i].order_purchase_timestamp.parsed
    /\ \A i \in DOMAIN orders : DOMAIN orders[i] = DOMAIN Order("A", "c1", "s", 1, 1)

\* The columns a call reads: those of the bundles it computes and, with a
\* month filter, the purchase timestamps of both filtered tables.
RequiredColumns ==
    UNION {{BundleAccesses(b)[i] : i \in DOMAIN BundleAccesses(b)} :
              b \in TaskBundles}
    \cup (IF IsNone(filter_month) THEN {}
          ELSE {Col("sales", "order_purchase_timestamp"),
                Col("orders", "order_purchase_timestamp")})

\* The call failed with an exception of this type that names a column a
\* table lacks, and returned nothing.
FailedWith(type) ==
    /\ error # None
    /\ error[1].type = type
    /\ \E c \in dropped \cap RequiredColumns : error[1].column = c.column
    /\ result = None

\* A call yields a summary with every bundle computed or fails, never a
\* partially populated summary; it fails exactly when a table lacks a
\* column it reads.
AllOrNothing ==
    /\ result # None =>
           error = None /\ pc = "done" /\ DOMAIN result[1] = TaskBundles
    /\ pc = "done" => result = Some(summary) /\ dropped \cap RequiredColumns = {}
    /\ error # None => pc = "raised" /\ result = None
    /\ pc = "raised" => error # None

\* C15 (as stated): a Facade function called with a table that lacks a
\* required column fails with a SchemaError naming the missing column, and
\* business_summary then returns no result: a summary with every bundle
\* computed, or a failure, never a partial summary.
C15_SchemaError ==
    /\ AllOrNothing
    /\ pc = "raised" => FailedWith("SchemaError")

\* C15 (amended): a Facade function called with a table that lacks a
\* required column fails with the KeyError of the column lookup, which
\* names the missing column, and business_summary then returns no result:
\* a summary with every bundle computed, or a failure, never a partial
\* summary.
C15_KeyErrorAllOrNothing ==
    /\ AllOrNothing
    /\ pc = "raised" => FailedWith("KeyError")

\* C15 witness: the customer table lacks customer_state; the call failed in
\* geographic performance, naming it, after four bundles had been computed,
\* and returned none of them.
C15_Witness ==
    /\ pc = "raised"
    /\ dropped = {Col("customers", "customer_state")}
    /\ error = Some([type |-> "KeyError", column |-> "customer_state"])
    /\ {"revenue", "aov", "orders", "category_performance"} \subseteq DOMAIN summary
    /\ result = None

\* The values the sequential code stores for a bundle on the caller's
\* tables: the bundle function applied to the tables as the month filter,
\* when one is given, leaves them.
SequentialValues(bundle) ==
    LET filtered(t) ==
            IF IsNone(filter_month) THEN t
            ELSE filter_data_by_period(t, None, filter_month,
                                       "order_purchase_timestamp")
    IN  BundleValuesOn(bundle, filtered(sales), filtered(orders))

====
